---- MODULE Spec2Model ----
(***************************************************************************)
(* A model of the signal-processing functions of monalysa:                 *)
(*   - experimental.get_move_segment_times  (movement segment extraction)  *)
(*   - ulfunc.uluse.detector_with_hystersis (binary detector, hysteresis)  *)
(*   - ulfunc.uluse.from_gmac               (pitch AND magnitude use)      *)
(*   - ulfunc.uluse.from_vec_mag, from_vec_mag_dblth and the older       *)
(*     ULUse.from_activity_counts1/2        (threshold detectors)          *)
(*   - misc.is_binary_signal, support.is_binary_signal                     *)
(*   - readers.get_continuous_time_segments                                *)
(*   - average_uluse, average_ulactivity, average_latindex                 *)
(*   - ulfunc.uluse.estimate_accl_pitch, estimate_accl_mag                 *)
(*                                                                         *)
(* Every function is pure: a call is modelled as a record holding the      *)
(* arguments, the position of the call (pc) and the intermediate arrays.   *)
(* Array indices are the 0-based indices of the Python code; an array is a *)
(* TLA+ sequence a, and the element of index i is a[i + 1].                *)
(*                                                                         *)
(* Numbers.  Times (delt, onth, offth) are integers in clock ticks, the    *)
(* ratios speedth and durtol are integers in hundredths (speedth = 5 is    *)
(* the 0.05 of the code).  int(a / b) is a \div b for a >= 0, b > 0, and   *)
(* int(durtol * d) is (durtol * d) \div 100.  The Euclidean norm is kept   *)
(* squared, and speeds are compared through their squares.                 *)
(***************************************************************************)
EXTENDS Integers, Sequences, FiniteSets, TLC

VARIABLES gmst, dwh, gmac, uluse, bin, cts, avg, est

vars == <<gmst, dwh, gmac, uluse, bin, cts, avg, est>>

(***************************************************************************)
(* Bounds of the model.                                                    *)
(***************************************************************************)
MaxN == 7          \* longest velocity signal enumerated exhaustively
MaxThN == 3        \* longest velocity signal with graded speeds
MaxLen == 4        \* longest detector input enumerated exhaustively
MaxGmacLen == 3    \* longest acceleration record given to from_gmac

(***************************************************************************)
(* Helpers on arrays.                                                      *)
(***************************************************************************)
At(a, i) == a[i + 1]

Indices(a) == 0 .. (Len(a) - 1)

Max2(a, b) == IF a >= b THEN a ELSE b

Min2(a, b) == IF a <= b THEN a ELSE b

RECURSIVE SortedSeq(_)
SortedSeq(S) ==
    IF S = {} THEN <<>>
    ELSE LET m == CHOOSE a \in S : \A b \in S : a <= b
         IN  <<m>> \o SortedSeq(S \ {m})

SeqsUpTo(S, n) == UNION {[1 .. k -> S] : k \in 0 .. n}

(***************************************************************************)
(* get_move_segment_times                                                  *)
(***************************************************************************)
\* np.linalg.norm(vel, axis=1), squared: the sum of the squared components.
RECURSIVE SqNorm(_)
SqNorm(row) ==
    IF row = <<>> THEN 0
    ELSE Head(row) * Head(row) + SqNorm(Tail(row))

SpdSq(vel) == [i \in 1 .. Len(vel) |-> SqNorm(vel[i])]

\* np.max(_spd), squared; the caller guarantees a non-empty array.
MaxSpdSq(spd) == CHOOSE m \in {spd[i] : i \in 1 .. Len(spd)} :
                     \A j \in 1 .. Len(spd) : spd[j] <= m

\* The ratio of line 81, in hundredths: the literal 0.05.
MovRatio == 5

\* _spd > r/100 * max(_spd), on the squares of non-negative numbers.
Exceeds(s2, r, m2) == 10000 * s2 > r * r * m2

\* _movseg = _spd > 0.05 * np.max(_spd)
Movseg(vel) ==
    LET spd == SpdSq(vel)
    IN  [i \in 1 .. Len(vel) |-> Exceeds(spd[i], MovRatio, MaxSpdSq(spd))]

\* np.where(np.diff(np.hstack((0, _movseg))) == 1)[0]
Strts(mov) ==
    SortedSeq({i \in Indices(mov) : At(mov, i) /\ (i = 0 \/ ~At(mov, i - 1))})

\* Mutant: the stop of a bout is taken one sample late, at the first sample
\* at rest after it.
StptsLate(mov) ==
    SortedSeq({i + 1 : i \in {j \in Indices(mov) :
                  At(mov, j) /\ (j = Len(mov) - 1 \/ ~At(mov, j + 1))}})

\* np.where(np.diff(np.hstack((_movseg, 0))) == -1)[0]
Stpts(mov) ==
    SortedSeq({i \in Indices(mov) :
                  At(mov, i) /\ (i = Len(mov) - 1 \/ ~At(mov, i + 1))})

\* np.vstack((_strts, _stpts)).T : the rows <<start, stop>>
Strstpts(mov) ==
    LET s == Strts(mov)
        e == Stpts(mov)
    IN  [k \in 1 .. Len(s) |-> <<s[k], e[k]>>]

\* int(onth / delt) and int(offth / delt)
IntDiv(a, b) == a \div b

\* The test of line 56 (and 99): np.diff(segtimes).T[0] > int(onth / delt)
LongOn(seg, onth, delt) == seg[2] - seg[1] > IntDiv(onth, delt)

\* The test of line 64 (and 97): _durs[i] > int(offth / delt)
LongOff(prev, next, offth, delt) == next[1] - prev[2] > IntDiv(offth, delt)

\* _remove_short_on_segments
RemoveShortOn(segtimes, onth, delt) ==
    SelectSeq(segtimes, LAMBDA s : LongOn(s, onth, delt))

\* Mutant: a survivor after a short gap is dropped, the stop of the current
\* segment is left as it was.
RECURSIVE OffLoopKeepsStop(_, _, _, _, _)
OffLoopKeepsStop(segtimes, k, out, offth, delt) ==
    IF k >= Len(segtimes) THEN out
    ELSE IF LongOff(segtimes[k], segtimes[k + 1], offth, delt)
         THEN OffLoopKeepsStop(segtimes, k + 1,
                               Append(out, segtimes[k + 1]), offth, delt)
         ELSE OffLoopKeepsStop(segtimes, k + 1, out, offth, delt)

\* The loop of _remove_short_off_segments over i = k - 1 .. len - 2, with
\* out the list _outsegtimes built so far.
RECURSIVE OffLoop(_, _, _, _, _)
OffLoop(segtimes, k, out, offth, delt) ==
    IF k >= Len(segtimes) THEN out
    ELSE IF LongOff(segtimes[k], segtimes[k + 1], offth, delt)
         THEN OffLoop(segtimes, k + 1, Append(out, segtimes[k + 1]),
                      offth, delt)
         ELSE OffLoop(segtimes, k + 1,
                      [out EXCEPT ![Len(out)][2] = segtimes[k + 1][2]],
                      offth, delt)

\* _remove_short_off_segments; segtimes[0, :] needs a first row.
RemoveShortOff(segtimes, offth, delt) ==
    OffLoop(segtimes, 1, <<segtimes[1]>>, offth, delt)

\* Lines 96-97: the first row, and every row whose gap to the row before
\* it is long.
KeepAfterLongOff(segtimes, offth, delt) ==
    LET keep == {1} \cup {k \in 2 .. Len(segtimes) :
                     LongOff(segtimes[k - 1], segtimes[k], offth, delt)}
        order == SortedSeq(keep)
    IN  [j \in 1 .. Len(order) |-> segtimes[order[j]]]

\* Lines 89-99, for a non-empty list of candidates.
Filtered(c) ==
    IF c.remove_on_before_off
    THEN RemoveShortOff(RemoveShortOn(c.strstpts, c.onth, c.delt),
                        c.offth, c.delt)
    ELSE RemoveShortOn(KeepAfterLongOff(c.strstpts, c.offth, c.delt),
                       c.onth, c.delt)

\* segtimes[0, :] (line 62) and the boolean index of line 97 (one True for
\* no row) raise IndexError on an array without rows.
FilterRaises(c) ==
    IF c.remove_on_before_off
    THEN RemoveShortOn(c.strstpts, c.onth, c.delt) = <<>>
    ELSE c.strstpts = <<>>

\* int(durtol * (_currstpt - _currstrt))
Ddur(seg, durtol) == (durtol * (seg[2] - seg[1])) \div 100

\* Mutant: the padding is not clipped at the neighbours or at the ends.
AdjustOneUnclipped(segs, i, n, durtol) ==
    <<At(segs, i)[1] - Ddur(At(segs, i), durtol),
      At(segs, i)[2] + Ddur(At(segs, i), durtol)>>

\* Lines 104-111 for the row of index i (0-based) of strstpts, n = len(_movseg).
AdjustOne(segs, i, n, durtol) ==
    LET prevstrt == IF i = 0 THEN 0 ELSE At(segs, i - 1)[2]
        currstrt == At(segs, i)[1]
        currstpt == At(segs, i)[2]
        nextstpt == IF i = Len(segs) - 1 THEN n - 1 ELSE At(segs, i + 1)[1]
        ddur     == Ddur(At(segs, i), durtol)
    IN  <<Max2(prevstrt, currstrt - ddur), Min2(currstpt + ddur, nextstpt)>>

\* Lines 102-112
Adjusted(segs, n, durtol) ==
    [k \in 1 .. Len(segs) |-> AdjustOne(segs, k - 1, n, durtol)]

\* Mutant: the assertion on durtol is missing.
ArgsOkButDurtol(c) ==
    /\ c.vel_is_array
    /\ c.delt > 0
    /\ 0 < c.speedth /\ c.speedth < 100
    /\ c.onth >= 0
    /\ c.offth >= 0

\* The assertions of lines 70-75.
ArgsOk(c) ==
    /\ c.vel_is_array
    /\ c.delt > 0
    /\ 0 < c.speedth /\ c.speedth < 100
    /\ c.onth >= 0
    /\ c.offth >= 0
    /\ 0 < c.durtol /\ c.durtol < 100

NoCall == [pc |-> "idle"]

GmstCall(vel, delt, speedth, onth, offth, rob, durtol) ==
    [pc |-> "call", vel |-> vel, delt |-> delt, speedth |-> speedth,
     onth |-> onth, offth |-> offth, remove_on_before_off |-> rob,
     durtol |-> durtol, movseg |-> <<>>, strstpts |-> <<>>,
     filtered |-> <<>>, strstpts_adj |-> <<>>,
     vel_is_array |-> TRUE, vel_ndim |-> 2]

\* A call whose vel is not a two-dimensional array: a list (is_array false)
\* or an array of ndim dimensions.  Such a vel is given by its kind only,
\* the call fails before any of its samples is read.
GmstCallShaped(is_array, ndim, delt, speedth, onth, offth, rob, durtol) ==
    [GmstCall(<<>>, delt, speedth, onth, offth, rob, durtol)
        EXCEPT !.vel_is_array = is_array, !.vel_ndim = ndim]

\* Lines 70-75: an assertion fails.
GmstReject ==
    /\ gmst.pc = "call"
    /\ ~ArgsOk(gmst)
    /\ gmst' = [gmst EXCEPT !.pc = "AssertionError"]
    /\ UNCHANGED <<dwh, gmac, uluse, bin, cts, avg, est>>

\* Line 78 on an array of less than two dimensions: the norm along axis 1.
GmstNoAxis ==
    /\ gmst.pc = "call"
    /\ ArgsOk(gmst)
    /\ gmst.vel_ndim < 2
    /\ gmst' = [gmst EXCEPT !.pc = "AxisError"]
    /\ UNCHANGED <<dwh, gmac, uluse, bin, cts, avg, est>>

\* Line 84 on an array of more than two dimensions: np.hstack of the scalar
\* 0 and a _movseg of two dimensions or more (np.max of line 81 when the
\* array has no sample).
GmstNoStack ==
    /\ gmst.pc = "call"
    /\ ArgsOk(gmst)
    /\ gmst.vel_ndim > 2
    /\ gmst' = [gmst EXCEPT !.pc = "ValueError"]
    /\ UNCHANGED <<dwh, gmac, uluse, bin, cts, avg, est>>

\* Line 81 on a signal without samples: np.max of an empty array.
GmstEmptyVel ==
    /\ gmst.pc = "call"
    /\ ArgsOk(gmst)
    /\ gmst.vel_ndim = 2
    /\ gmst.vel = <<>>
    /\ gmst' = [gmst EXCEPT !.pc = "ValueError"]
    /\ UNCHANGED <<dwh, gmac, uluse, bin, cts, avg, est>>

\* Lines 77-86
GmstSegments ==
    /\ gmst.pc = "call"
    /\ ArgsOk(gmst)
    /\ gmst.vel_ndim = 2
    /\ gmst.vel # <<>>
    /\ gmst' = [gmst EXCEPT !.pc = "filter",
                            !.movseg = Movseg(gmst.vel),
                            !.strstpts = Strstpts(Movseg(gmst.vel))]
    /\ UNCHANGED <<dwh, gmac, uluse, bin, cts, avg, est>>

\* Lines 88-99 on no candidate (or, on-removal first, no long candidate).
GmstFilterRaise ==
    /\ gmst.pc = "filter"
    /\ FilterRaises(gmst)
    /\ gmst' = [gmst EXCEPT !.pc = "IndexError"]
    /\ UNCHANGED <<dwh, gmac, uluse, bin, cts, avg, est>>

\* Lines 88-99
GmstFilter ==
    /\ gmst.pc = "filter"
    /\ ~FilterRaises(gmst)
    /\ gmst' = [gmst EXCEPT !.pc = "adjust", !.filtered = Filtered(gmst)]
    /\ UNCHANGED <<dwh, gmac, uluse, bin, cts, avg, est>>

\* Lines 101-112
GmstAdjust ==
    /\ gmst.pc = "adjust"
    /\ gmst' = [gmst EXCEPT !.pc = "return",
                            !.strstpts_adj = Adjusted(gmst.filtered,
                                                      Len(gmst.movseg),
                                                      gmst.durtol)]
    /\ UNCHANGED <<dwh, gmac, uluse, bin, cts, avg, est>>

NextSeg ==
    \/ GmstReject
    \/ GmstNoAxis
    \/ GmstNoStack
    \/ GmstEmptyVel
    \/ GmstSegments
    \/ GmstFilterRaise
    \/ GmstFilter
    \/ GmstAdjust

\* Velocity rows at rest and in motion (speed 5), two components.
BinaryRows == {<<0, 0>>, <<3, -4>>}

\* Velocity rows of graded speeds 0, 1, 2, 20, one component.
GradedRows == {<<0>>, <<1>>, <<-2>>, <<20>>}

\* A signal of 13 samples in motion but for the samples a .. b at rest.
TwoBouts(a, b) ==
    [i \in 1 .. 13 |-> IF (i - 1) \in a .. b THEN <<0, 0>> ELSE <<3, -4>>]

\* A signal of 100 samples at rest but for speed 1 at the samples a .. b.
Pulse(a, b) == [i \in 1 .. 100 |-> IF (i - 1) \in a .. b THEN <<1>> ELSE <<0>>]

\* Three bouts of two samples each, g1 samples at rest between the first two
\* and g2 between the last two; with blip, the middle sample of a rest of
\* three samples is in motion (a bout of one sample).
RestGap(g, blip) ==
    [i \in 1 .. g |-> IF blip /\ g = 3 /\ i = 2 THEN <<3, -4>> ELSE <<0, 0>>]

ThreeBouts(g1, g2, blip) ==
    <<<<3, -4>>, <<3, -4>>>> \o RestGap(g1, blip) \o
    <<<<3, -4>>, <<3, -4>>>> \o RestGap(g2, blip) \o
    <<<<3, -4>>, <<3, -4>>>>

InitSeg ==
    /\ dwh = NoCall
    /\ gmac = NoCall
    /\ uluse = NoCall
    /\ bin = NoCall
    /\ cts = NoCall
    /\ avg = NoCall
    /\ est = NoCall
    /\ \/ \E vel \in SeqsUpTo(BinaryRows, MaxN), delt \in {1, 2},
             onth \in {0, 2}, offth \in {0, 4}, rob \in BOOLEAN,
             durtol \in {25, 50} :
             gmst = GmstCall(vel, delt, 5, onth, offth, rob, durtol)
       \/ \E vel \in SeqsUpTo(GradedRows, MaxThN),
             speedth \in {0, 1, 5, 50, 100}, rob \in BOOLEAN :
             gmst = GmstCall(vel, 1, speedth, 0, 0, rob, 50)
       \/ \E a \in 29 .. 31, b \in 49 .. 51, delt \in {0, 1},
             durtol \in {0, 1, 4, 10, 100}, rob \in BOOLEAN :
             gmst = GmstCall(Pulse(a, b), delt, 5, 0, 0, rob, durtol)
       \/ \E a \in 6 .. 7, b \in 7 .. 8, durtol \in {50, 90},
             rob \in BOOLEAN :
             gmst = GmstCall(TwoBouts(a, b), 1, 5, 0, 0, rob, durtol)
       \/ \E g1 \in 1 .. 3, g2 \in 1 .. 3, blip \in BOOLEAN,
             offth \in {0, 2, 4}, rob \in BOOLEAN :
             gmst = GmstCall(ThreeBouts(g1, g2, blip), 1, 5, 0, offth, rob,
                             50)
       \/ \E is_array \in BOOLEAN, ndim \in 0 .. 3, delt \in {0, 1},
             durtol \in {0, 50} :
             /\ ~(is_array /\ ndim = 2)
             /\ gmst = GmstCallShaped(is_array, ndim, delt, 5, 0, 0, TRUE,
                                      durtol)

SpecSeg == InitSeg /\ [][NextSeg]_vars

(***************************************************************************)
(* detector_with_hystersis                                                 *)
(***************************************************************************)
\* np.nan: a sample that is not a number.  Every comparison with it is
\* false.
NaN == -999

IsNaN(v) == v = NaN

\* a > b and a >= b on floats
Gt(a, b) == ~IsNaN(a) /\ ~IsNaN(b) /\ a > b

Ge(a, b) == ~IsNaN(a) /\ ~IsNaN(b) /\ a >= b

\* 1 * (condition)
Bit(b) == IF b THEN 1 ELSE 0

\* Mutant: the detector switches on at x[i] >= th.
HystStepNonStrict(yprev, xi, th, th_band) ==
    IF yprev = 0 THEN Bit(Ge(xi, th)) ELSE Bit(Ge(xi, th - th_band))

\* Mutant: the detector stays on only above th - th_band.
HystStepStrictBand(yprev, xi, th, th_band) ==
    IF yprev = 0 THEN Bit(Gt(xi, th)) ELSE Bit(Gt(xi, th - th_band))

\* Mutant: no hysteresis, the output is x[i] > th in both states.
HystStepNoBand(yprev, xi, th, th_band) == Bit(Gt(xi, th))

\* Lines 211-214: y[i] from y[i-1] and x[i].
HystStep(yprev, xi, th, th_band) ==
    IF yprev = 0 THEN Bit(Gt(xi, th)) ELSE Bit(Ge(xi, th - th_band))

\* Lines 210-214: the loop from index i on.
RECURSIVE HystLoop(_, _, _, _, _)
HystLoop(x, th, th_band, y, i) ==
    IF i >= Len(y) THEN y
    ELSE HystLoop(x, th, th_band,
                  [y EXCEPT ![i + 1] = HystStep(At(y, i - 1), At(x, i),
                                                th, th_band)],
                  i + 1)

\* np.zeros(n)
Zeros(n) == [i \in 1 .. n |-> 0]

\* Mutant: the first sample is decided too, as from the off state.
DetectorFromFirstSample(x, th, th_band) ==
    IF x = <<>> THEN <<>>
    ELSE HystLoop(x, th, th_band,
                  [Zeros(Len(x)) EXCEPT ![1] = Bit(Gt(x[1], th))], 1)

\* Lines 209-215
detector_with_hystersis(x, th, th_band) ==
    HystLoop(x, th, th_band, Zeros(Len(x)), 1)

DwhCall(x, th, th_band) ==
    [pc |-> "call", x |-> x, th |-> th, th_band |-> th_band, y |-> <<>>]

DwhRun ==
    /\ dwh.pc = "call"
    /\ dwh' = [dwh EXCEPT !.pc = "return",
                          !.y = detector_with_hystersis(dwh.x, dwh.th,
                                                        dwh.th_band)]
    /\ UNCHANGED <<gmst, gmac, uluse, bin, cts, avg, est>>

NextHyst == DwhRun

\* Samples below, at and above the thresholds, and NaN.
Samples == {NaN, 0, 2, 3, 5, 6}

InitHyst ==
    /\ gmst = NoCall
    /\ gmac = NoCall
    /\ uluse = NoCall
    /\ bin = NoCall
    /\ cts = NoCall
    /\ avg = NoCall
    /\ est = NoCall
    /\ \E x \in SeqsUpTo(Samples, MaxLen) \cup {<<0, 2, 6, 4, 2, 0>>},
          th \in {3, 5}, th_band \in {-1, 0, 2} :
          dwh = DwhCall(x, th, th_band)

SpecHyst == InitHyst /\ [][NextHyst]_vars

(***************************************************************************)
(* from_gmac                                                               *)
(*                                                                         *)
(* The pitch and the magnitude come out of scipy filters and arcsin: they  *)
(* are any two arrays of as many samples as accl has rows.  accl is given  *)
(* by its shape (rows, cols); fs, nwin, fc, nc and nam are taken valid.    *)
(***************************************************************************)
\* Mutant: use is detected when either detector is on.
GmacOutEither(pout, amout) ==
    [i \in 1 .. Len(pout) |-> Max2(pout[i], amout[i])]

\* _pout * _amout (line 275)
GmacOut(pout, amout) == [i \in 1 .. Len(pout) |-> pout[i] * amout[i]]

GmacCall(rows, cols, farm_inx, p_th, p_th_band, am_th, am_th_band) ==
    [pc |-> "call", rows |-> rows, cols |-> cols,
     accl_farm_inx |-> farm_inx, p_th |-> p_th, p_th_band |-> p_th_band,
     am_th |-> am_th, am_th_band |-> am_th_band, pitch |-> <<>>,
     accl_mag |-> <<>>, pout |-> <<>>, amout |-> <<>>, out |-> <<>>]

\* The assertions of estimate_accl_pitch on accl and farm_inx.
PitchArgsOk(c) ==
    /\ c.cols <= 3
    /\ c.accl_farm_inx >= 0 /\ c.accl_farm_inx < c.cols

\* Line 269: an assertion of estimate_accl_pitch fails.
GmacReject ==
    /\ gmac.pc = "call"
    /\ ~PitchArgsOk(gmac)
    /\ gmac' = [gmac EXCEPT !.pc = "AssertionError"]
    /\ UNCHANGED <<gmst, dwh, uluse, bin, cts, avg, est>>

\* Line 270: estimate_accl_mag reads the column accl[:, 2].
GmacNoThirdAxis ==
    /\ gmac.pc = "call"
    /\ PitchArgsOk(gmac)
    /\ gmac.cols < 3
    /\ gmac' = [gmac EXCEPT !.pc = "IndexError"]
    /\ UNCHANGED <<gmst, dwh, uluse, bin, cts, avg, est>>

GmacSamples == {NaN, 4, 5, 6}

\* Lines 268-270
GmacEstimate ==
    /\ gmac.pc = "call"
    /\ PitchArgsOk(gmac)
    /\ gmac.cols = 3
    /\ \E pitch \in [1 .. gmac.rows -> GmacSamples],
          accl_mag \in [1 .. gmac.rows -> GmacSamples] :
          gmac' = [gmac EXCEPT !.pc = "estimated", !.pitch = pitch,
                               !.accl_mag = accl_mag]
    /\ UNCHANGED <<gmst, dwh, uluse, bin, cts, avg, est>>

\* Lines 272-275
GmacReturn ==
    /\ gmac.pc = "estimated"
    /\ LET pout  == detector_with_hystersis(gmac.pitch, gmac.p_th,
                                            gmac.p_th_band)
           amout == detector_with_hystersis(gmac.accl_mag, gmac.am_th,
                                            gmac.am_th_band)
       IN  gmac' = [gmac EXCEPT !.pc = "return", !.pout = pout,
                                !.amout = amout,
                                !.out = GmacOut(pout, amout)]
    /\ UNCHANGED <<gmst, dwh, uluse, bin, cts, avg, est>>

NextGmac ==
    \/ GmacReject
    \/ GmacNoThirdAxis
    \/ GmacEstimate
    \/ GmacReturn

InitGmac ==
    /\ gmst = NoCall
    /\ dwh = NoCall
    /\ uluse = NoCall
    /\ bin = NoCall
    /\ cts = NoCall
    /\ avg = NoCall
    /\ est = NoCall
    /\ \E rows \in 1 .. MaxGmacLen, cols \in 2 .. 4, farm_inx \in {0, 3},
          p_th_band \in {0, 1}, am_th_band \in {0, 1} :
          gmac = GmacCall(rows, cols, farm_inx, 5, p_th_band, 5, am_th_band)

SpecGmac == InitGmac /\ [][NextGmac]_vars

(***************************************************************************)
(* from_vec_mag, from_vec_mag_dblth (monalysa/ulfunc/uluse.py) and the     *)
(* older ULUse.from_activity_counts1, ULUse.from_activity_counts2          *)
(* (ulfunc.py).  A call is the record uluse: fn names the function,        *)
(* vecmag is the magnitude array, thresh_l and thresh_h the thresholds     *)
(* (a one-threshold function gets its threshold in both), inx and use the  *)
(* returned index array and use array.  The older functions return the     *)
(* use array only, inx stays empty.                                        *)
(***************************************************************************)
MaxVmLen == 4      \* longest magnitude array enumerated exhaustively

\* a[i] of Python, a negative index counts from the end
PyAt(a, i) == IF i >= 0 THEN a[i + 1] ELSE a[Len(a) + i + 1]

Lt(a, b) == Gt(b, a)

RECURSIVE NanMinFrom(_, _, _)
NanMinFrom(v, i, m) ==
    IF i > Len(v) THEN m
    ELSE IF IsNaN(v[i]) THEN NanMinFrom(v, i + 1, m)
    ELSE IF IsNaN(m) THEN NanMinFrom(v, i + 1, v[i])
    ELSE NanMinFrom(v, i + 1, Min2(m, v[i]))

\* np.nanmin: the least value that is not NaN, NaN when all of them are
NanMin(v) == NanMinFrom(v, 1, NaN)

RECURSIVE PyMinFrom(_, _, _)
PyMinFrom(v, i, m) ==
    IF i > Len(v) THEN m
    ELSE PyMinFrom(v, i + 1, IF Lt(v[i], m) THEN v[i] ELSE m)

\* min of Python on a non-empty array: the running value gives way to an
\* item only when item < value is true
PyMin(v) == PyMinFrom(v, 2, v[1])

Arange(n) == [i \in 1 .. n |-> i - 1]

\* Mutant: the comparator is strict.
FromVecMagStrict(vecmag, thresh) ==
    [i \in 1 .. Len(vecmag) |->
        IF IsNaN(vecmag[i]) THEN NaN ELSE Bit(Gt(vecmag[i], thresh))]

\* the use array of from_vec_mag
FromVecMag(vecmag, thresh) ==
    [i \in 1 .. Len(vecmag) |->
        IF IsNaN(vecmag[i]) THEN NaN ELSE Bit(Ge(vecmag[i], thresh))]

\* the array of from_activity_counts1
FromActivityCounts1(actcounts, threshold) ==
    [i \in 1 .. Len(actcounts) |-> Bit(Ge(actcounts[i], threshold))]

DeadZone(v, thresh_l, thresh_h) == Ge(v, thresh_l) /\ Lt(v, thresh_h)

\* Mutant: the sample before is copied even when it is NaN.
DblthStepCopiesNaN(u, i) == IF i > 0 THEN PyAt(u, i - 1) ELSE 0

\* Mutant: a dead-zone sample is always off.
DblthStepOff(u, i) == 0

\* the value given to the dead-zone sample i
DblthStep(u, i) ==
    IF IsNaN(PyAt(u, i - 1)) THEN 0
    ELSE IF i > 0 THEN PyAt(u, i - 1) ELSE 0

RECURSIVE DblthLoop(_, _, _, _, _)
DblthLoop(vecmag, thresh_l, thresh_h, u, i) ==
    IF i >= Len(vecmag) THEN u
    ELSE IF DeadZone(At(vecmag, i), thresh_l, thresh_h)
         THEN DblthLoop(vecmag, thresh_l, thresh_h,
                        [u EXCEPT ![i + 1] = DblthStep(u, i)], i + 1)
         ELSE DblthLoop(vecmag, thresh_l, thresh_h, u, i + 1)

\* the use array of from_vec_mag_dblth when thresh_l < thresh_h
FromVecMagDblth(vecmag, thresh_l, thresh_h) ==
    DblthLoop(vecmag, thresh_l, thresh_h,
              [i \in 1 .. Len(vecmag) |->
                  IF IsNaN(vecmag[i]) THEN NaN
                  ELSE Bit(Ge(vecmag[i], thresh_h))],
              0)

Counts2Step(u, i) == IF i > 0 THEN PyAt(u, i - 1) ELSE 0

RECURSIVE Counts2Loop(_, _, _, _, _)
Counts2Loop(actcounts, threshold0, threshold1, u, i) ==
    IF i >= Len(actcounts) THEN u
    ELSE IF DeadZone(At(actcounts, i), threshold0, threshold1)
         THEN Counts2Loop(actcounts, threshold0, threshold1,
                          [u EXCEPT ![i + 1] = Counts2Step(u, i)], i + 1)
         ELSE Counts2Loop(actcounts, threshold0, threshold1, u, i + 1)

\* the array of from_activity_counts2 when threshold0 < threshold1
FromActivityCounts2(actcounts, threshold0, threshold1) ==
    Counts2Loop(actcounts, threshold0, threshold1,
                [i \in 1 .. Len(actcounts) |->
                    Bit(Ge(actcounts[i], threshold1))],
                0)

\* the assertions of from_vec_mag
VecMagArgsOk(c) == Len(c.vecmag) > 0 /\ Ge(NanMin(c.vecmag), 0)

\* the assertions of from_vec_mag_dblth
DblthArgsOk(c) == VecMagArgsOk(c) /\ c.thresh_l <= c.thresh_h

\* the assertions of from_activity_counts1
Counts1ArgsOk(c) == Len(c.vecmag) > 0 /\ Ge(PyMin(c.vecmag), 0)

\* the assertions of from_activity_counts2
Counts2ArgsOk(c) == Counts1ArgsOk(c) /\ c.thresh_l <= c.thresh_h

UluseCall(fn, vecmag, thresh_l, thresh_h) ==
    [pc |-> "call", fn |-> fn, vecmag |-> vecmag, thresh_l |-> thresh_l,
     thresh_h |-> thresh_h, inx |-> <<>>, use |-> <<>>]

VecMagReject ==
    /\ uluse.pc = "call"
    /\ uluse.fn = "from_vec_mag"
    /\ ~VecMagArgsOk(uluse)
    /\ uluse' = [uluse EXCEPT !.pc = "AssertionError"]
    /\ UNCHANGED <<gmst, dwh, gmac, bin, cts, avg, est>>

VecMagReturn ==
    /\ uluse.pc = "call"
    /\ uluse.fn = "from_vec_mag"
    /\ VecMagArgsOk(uluse)
    /\ uluse' = [uluse EXCEPT !.pc = "return",
                              !.inx = Arange(Len(uluse.vecmag)),
                              !.use = FromVecMag(uluse.vecmag,
                                                 uluse.thresh_l)]
    /\ UNCHANGED <<gmst, dwh, gmac, bin, cts, avg, est>>

DblthReject ==
    /\ uluse.pc = "call"
    /\ uluse.fn = "from_vec_mag_dblth"
    /\ ~DblthArgsOk(uluse)
    /\ uluse' = [uluse EXCEPT !.pc = "AssertionError"]
    /\ UNCHANGED <<gmst, dwh, gmac, bin, cts, avg, est>>

\* thresh_l == thresh_h: the call is handed to from_vec_mag, whose
\* assertions are the ones that have just held
DblthSameThresholds ==
    /\ uluse.pc = "call"
    /\ uluse.fn = "from_vec_mag_dblth"
    /\ DblthArgsOk(uluse)
    /\ uluse.thresh_l = uluse.thresh_h
    /\ uluse' = [uluse EXCEPT !.pc = "return",
                              !.inx = Arange(Len(uluse.vecmag)),
                              !.use = FromVecMag(uluse.vecmag,
                                                 uluse.thresh_l)]
    /\ UNCHANGED <<gmst, dwh, gmac, bin, cts, avg, est>>

DblthHysteresis ==
    /\ uluse.pc = "call"
    /\ uluse.fn = "from_vec_mag_dblth"
    /\ DblthArgsOk(uluse)
    /\ uluse.thresh_l # uluse.thresh_h
    /\ uluse' = [uluse EXCEPT !.pc = "return",
                              !.inx = Arange(Len(uluse.vecmag)),
                              !.use = FromVecMagDblth(uluse.vecmag,
                                                      uluse.thresh_l,
                                                      uluse.thresh_h)]
    /\ UNCHANGED <<gmst, dwh, gmac, bin, cts, avg, est>>

Counts1Reject ==
    /\ uluse.pc = "call"
    /\ uluse.fn = "from_activity_counts1"
    /\ ~Counts1ArgsOk(uluse)
    /\ uluse' = [uluse EXCEPT !.pc = "AssertionError"]
    /\ UNCHANGED <<gmst, dwh, gmac, bin, cts, avg, est>>

Counts1Return ==
    /\ uluse.pc = "call"
    /\ uluse.fn = "from_activity_counts1"
    /\ Counts1ArgsOk(uluse)
    /\ uluse' = [uluse EXCEPT !.pc = "return",
                              !.use = FromActivityCounts1(uluse.vecmag,
                                                          uluse.thresh_l)]
    /\ UNCHANGED <<gmst, dwh, gmac, bin, cts, avg, est>>

Counts2Reject ==
    /\ uluse.pc = "call"
    /\ uluse.fn = "from_activity_counts2"
    /\ ~Counts2ArgsOk(uluse)
    /\ uluse' = [uluse EXCEPT !.pc = "AssertionError"]
    /\ UNCHANGED <<gmst, dwh, gmac, bin, cts, avg, est>>

\* threshold0 == threshold1: the call is handed to from_activity_counts1
Counts2SameThresholds ==
    /\ uluse.pc = "call"
    /\ uluse.fn = "from_activity_counts2"
    /\ Counts2ArgsOk(uluse)
    /\ uluse.thresh_l = uluse.thresh_h
    /\ uluse' = [uluse EXCEPT !.pc = "return",
                              !.use = FromActivityCounts1(uluse.vecmag,
                                                          uluse.thresh_l)]
    /\ UNCHANGED <<gmst, dwh, gmac, bin, cts, avg, est>>

Counts2Hysteresis ==
    /\ uluse.pc = "call"
    /\ uluse.fn = "from_activity_counts2"
    /\ Counts2ArgsOk(uluse)
    /\ uluse.thresh_l # uluse.thresh_h
    /\ uluse' = [uluse EXCEPT !.pc = "return",
                              !.use = FromActivityCounts2(uluse.vecmag,
                                                          uluse.thresh_l,
                                                          uluse.thresh_h)]
    /\ UNCHANGED <<gmst, dwh, gmac, bin, cts, avg, est>>

NextUluse ==
    \/ VecMagReject
    \/ VecMagReturn
    \/ DblthReject
    \/ DblthSameThresholds
    \/ DblthHysteresis
    \/ Counts1Reject
    \/ Counts1Return
    \/ Counts2Reject
    \/ Counts2SameThresholds
    \/ Counts2Hysteresis

\* magnitudes below, at, between and at the upper of the thresholds 2 and 4,
\* a negative one and NaN
Magnitudes == {NaN, -1, 1, 2, 3, 4}

ThresholdPairs == {<<2, 4>>, <<3, 3>>, <<4, 2>>}

InitUluse ==
    /\ gmst = NoCall
    /\ dwh = NoCall
    /\ gmac = NoCall
    /\ bin = NoCall
    /\ cts = NoCall
    /\ avg = NoCall
    /\ est = NoCall
    /\ \E vecmag \in SeqsUpTo(Magnitudes, MaxVmLen) :
          \/ \E fn \in {"from_vec_mag", "from_activity_counts1"},
                thresh \in {2, 3} :
                uluse = UluseCall(fn, vecmag, thresh, thresh)
          \/ \E fn \in {"from_vec_mag_dblth", "from_activity_counts2"},
                th \in ThresholdPairs :
                uluse = UluseCall(fn, vecmag, th[1], th[2])

SpecUluse == InitUluse /\ [][NextUluse]_vars

\* The two hysteresis detectors side by side.
SpecDetectors == (InitHyst \/ InitUluse) /\ [][NextHyst \/ NextUluse]_vars

UluseDone == uluse.pc \in {"return", "AssertionError"}

(***************************************************************************)
(* is_binary_signal of monalysa/misc.py and of support.py.  A call is the  *)
(* record bin: module names the file of the function, sig is the signal,   *)
(* allownan the flag, result the returned boolean.                         *)
(***************************************************************************)
MaxBinLen == 3     \* longest signal given to is_binary_signal

\* sig == v and sig != v on floats, element by element
Eq(a, b) == ~IsNaN(a) /\ ~IsNaN(b) /\ a = b

Ne(a, b) == ~Eq(a, b)

\* Mutant: the NaN test is part of the tests whatever allownan is.
misc_is_binary_signal_nan_always(sig, allownan) ==
    \A i \in 1 .. Len(sig) :
        Eq(sig[i], 0) \/ Eq(sig[i], 1) \/ IsNaN(sig[i])

\* np.all(np.any(_test, axis=0)) with _test = [sig == 0, sig == 1] and,
\* when allownan, np.isnan(sig)
misc_is_binary_signal(sig, allownan) ==
    \A i \in 1 .. Len(sig) :
        Eq(sig[i], 0) \/ Eq(sig[i], 1) \/ (allownan /\ IsNaN(sig[i]))

\* the same with _test = [sig != 0, sig != 1]
support_is_binary_signal(sig, allownan) ==
    \A i \in 1 .. Len(sig) :
        Ne(sig[i], 0) \/ Ne(sig[i], 1) \/ (allownan /\ IsNaN(sig[i]))

BinCall(module, sig, allownan) ==
    [pc |-> "call", module |-> module, sig |-> sig, allownan |-> allownan,
     result |-> FALSE]

MiscIsBinary ==
    /\ bin.pc = "call"
    /\ bin.module = "misc"
    /\ bin' = [bin EXCEPT !.pc = "return",
                          !.result = misc_is_binary_signal(bin.sig,
                                                           bin.allownan)]
    /\ UNCHANGED <<gmst, dwh, gmac, uluse, cts, avg, est>>

SupportIsBinary ==
    /\ bin.pc = "call"
    /\ bin.module = "support"
    /\ bin' = [bin EXCEPT !.pc = "return",
                          !.result = support_is_binary_signal(bin.sig,
                                                              bin.allownan)]
    /\ UNCHANGED <<gmst, dwh, gmac, uluse, cts, avg, est>>

NextBin ==
    \/ MiscIsBinary
    \/ SupportIsBinary

\* the two binary values, a value that is neither, and NaN
BinSamples == {NaN, 0, 1, 2}

InitBin ==
    /\ gmst = NoCall
    /\ dwh = NoCall
    /\ gmac = NoCall
    /\ uluse = NoCall
    /\ cts = NoCall
    /\ avg = NoCall
    /\ est = NoCall
    /\ \E module \in {"misc", "support"},
          sig \in SeqsUpTo(BinSamples, MaxBinLen), allownan \in BOOLEAN :
          bin = BinCall(module, sig, allownan)

SpecBin == InitBin /\ [][NextBin]_vars

(***************************************************************************)
(* get_continuous_time_segments (monalysa/readers.py).  A call is the      *)
(* record cts: timeseries is the series of timestamps, in clock ticks and  *)
(* with the index labels 0 .. N-1 of a freshly read table, deltatime the   *)
(* sampling interval, pos the list _pos and segments the returned list of  *)
(* (start, end) pairs.                                                     *)
(***************************************************************************)
MaxTsLen == 5      \* longest series of timestamps

\* pandas.NaT, the difference the first timestamp gets; it differs from
\* every Timedelta
NaT == -998

\* timeseries.diff()
Tdiff(timeseries) ==
    [i \in 1 .. Len(timeseries) |->
        IF i = 1 THEN NaT ELSE timeseries[i] - timeseries[i - 1]]

\* _tdiff.index[_tdiff != deltatime].to_list() + [_tdiff.index[-1]]
Pos(timeseries, deltatime) ==
    SortedSeq({i \in Indices(timeseries) :
                  \/ At(Tdiff(timeseries), i) = NaT
                  \/ At(Tdiff(timeseries), i) # deltatime})
    \o <<Len(timeseries) - 1>>

\* the pairs of zip(_pos[:-1], _pos[1:]) read from the series
Segments(timeseries, pos) ==
    [k \in 1 .. Len(pos) - 1 |->
        <<At(timeseries, pos[k]), At(timeseries, pos[k + 1])>>]

CtsCall(timeseries, deltatime) ==
    [pc |-> "call", timeseries |-> timeseries, deltatime |-> deltatime,
     pos |-> <<>>, segments |-> <<>>]

\* _tdiff.index[-1] of an empty series
CtsEmpty ==
    /\ cts.pc = "call"
    /\ cts.timeseries = <<>>
    /\ cts' = [cts EXCEPT !.pc = "IndexError"]
    /\ UNCHANGED <<gmst, dwh, gmac, uluse, bin, avg, est>>

CtsReturn ==
    /\ cts.pc = "call"
    /\ cts.timeseries # <<>>
    /\ cts' = [cts EXCEPT
                  !.pc = "return",
                  !.pos = Pos(cts.timeseries, cts.deltatime),
                  !.segments = Segments(cts.timeseries,
                                        Pos(cts.timeseries, cts.deltatime))]
    /\ UNCHANGED <<gmst, dwh, gmac, uluse, bin, avg, est>>

NextCts ==
    \/ CtsEmpty
    \/ CtsReturn

\* the steps between successive timestamps: the sampling interval and gaps
Steps == {1, 2, 3}

\* the series that starts at 0 and goes on by the given steps
RECURSIVE FromSteps(_, _)
FromSteps(t0, steps) ==
    IF steps = <<>> THEN <<t0>>
    ELSE <<t0>> \o FromSteps(t0 + Head(steps), Tail(steps))

InitCts ==
    /\ gmst = NoCall
    /\ dwh = NoCall
    /\ gmac = NoCall
    /\ uluse = NoCall
    /\ bin = NoCall
    /\ avg = NoCall
    /\ est = NoCall
    /\ \E deltatime \in {1, 2} :
          \/ cts = CtsCall(<<>>, deltatime)
          \/ \E steps \in SeqsUpTo(Steps, MaxTsLen - 1) :
                cts = CtsCall(FromSteps(0, steps), deltatime)

SpecCts == InitCts /\ [][NextCts]_vars

(***************************************************************************)
(* The windowed averages: average_uluse (ulfunc/uluse.py),                 *)
(* average_ulactivity (ulfunc/ulint.py), average_ulactivity and            *)
(* average_latindex (ulfunc/measures.py).  A call is the record avg: fn    *)
(* names the function, sig is the signal, windur and winshift are in       *)
(* seconds, rate is fs (samples per second) for the first two functions    *)
(* and sample_t (seconds per sample) for the last two.  inx is the         *)
(* returned index array; the returned averages are kept as the window      *)
(* sums in sums, each to be divided by n_win.                              *)
(***************************************************************************)
MaxAvgLen == 4     \* longest signal given to an averaging function

TakesFs(fn) == fn \in {"uluse.average_uluse", "ulint.average_ulactivity"}

\* n_win: int(windur * fs), int(windur / sample_t)
NWin(c) ==
    IF TakesFs(c.fn) THEN c.windur * c.rate ELSE IntDiv(c.windur, c.rate)

\* n_shift: int(winshift * fs), and int(windur / sample_t) in measures.py
NShift(c) ==
    IF TakesFs(c.fn) THEN c.winshift * c.rate ELSE IntDiv(c.windur, c.rate)

\* The assertions of the four functions.
AvgArgsOk(c) ==
    /\ c.windur > 0
    /\ c.winshift > 0
    /\ c.rate > 0
    /\ CASE c.fn = "uluse.average_uluse" ->
                misc_is_binary_signal(c.sig, TRUE)
         [] c.fn \in {"ulint.average_ulactivity",
                      "measures.average_ulactivity"} ->
                Ge(NanMin(c.sig), 0)
         [] c.fn = "measures.average_latindex" ->
                \A i \in 1 .. Len(c.sig) :
                    Ge(1, c.sig[i]) /\ Ge(c.sig[i], -1)

\* x[i] of a signal that is zero before it starts
AtOrZero(x, i) == IF i < 0 THEN 0 ELSE At(x, i)

\* Mutant: the window looks ahead, it holds the samples i .. i + n - 1.
RECURSIVE WindowSumAhead(_, _, _)
WindowSumAhead(x, i, n) ==
    IF n = 0 \/ i >= Len(x) THEN 0
    ELSE IF IsNaN(AtOrZero(x, i)) \/ IsNaN(WindowSumAhead(x, i + 1, n - 1))
         THEN NaN
         ELSE AtOrZero(x, i) + WindowSumAhead(x, i + 1, n - 1)

RECURSIVE WindowSum(_, _, _)
WindowSum(x, i, n) ==
    IF n = 0 THEN 0
    ELSE IF IsNaN(AtOrZero(x, i)) \/ IsNaN(WindowSum(x, i - 1, n - 1))
         THEN NaN
         ELSE AtOrZero(x, i) + WindowSum(x, i - 1, n - 1)

\* signal.lfilter(b=np.ones(n_win), a=np.array([n_win]), x): n_win times
\* the output, the sum of the last n_win samples at each index
Lfilter(x, n_win) == [i \in 1 .. Len(x) |-> WindowSum(x, i - 1, n_win)]

\* np.arange(0, n, step)
ArangeStep(n, step) ==
    [j \in 1 .. ((n + step - 1) \div step) |-> (j - 1) * step]

\* a[::step]
EveryNth(a, step) ==
    [j \in 1 .. ((Len(a) + step - 1) \div step) |-> At(a, (j - 1) * step)]

AvgCall(fn, sig, windur, winshift, rate) ==
    [pc |-> "call", fn |-> fn, sig |-> sig, windur |-> windur,
     winshift |-> winshift, rate |-> rate, n_win |-> 0, inx |-> <<>>,
     sums |-> <<>>]

AvgReject ==
    /\ avg.pc = "call"
    /\ ~AvgArgsOk(avg)
    /\ avg' = [avg EXCEPT !.pc = "AssertionError"]
    /\ UNCHANGED <<gmst, dwh, gmac, uluse, bin, cts, est>>

AvgReturn ==
    /\ avg.pc = "call"
    /\ AvgArgsOk(avg)
    /\ avg' = [avg EXCEPT
                  !.pc = "return",
                  !.n_win = NWin(avg),
                  !.inx = ArangeStep(Len(avg.sig), NShift(avg)),
                  !.sums = EveryNth(Lfilter(avg.sig, NWin(avg)),
                                    NShift(avg))]
    /\ UNCHANGED <<gmst, dwh, gmac, uluse, bin, cts, est>>

NextAvg ==
    \/ AvgReject
    \/ AvgReturn

\* use values 0 and 1, an intensity 2, a laterality index -1, and NaN
AvgSamples == {NaN, -1, 0, 1, 2}

\* Signals of at least one sample; windows of at least one sample.
InitAvg ==
    /\ gmst = NoCall
    /\ dwh = NoCall
    /\ gmac = NoCall
    /\ uluse = NoCall
    /\ bin = NoCall
    /\ cts = NoCall
    /\ est = NoCall
    /\ \E sig \in SeqsUpTo(AvgSamples, MaxAvgLen) \ {<<>>} :
          \/ \E fn \in {"uluse.average_uluse", "ulint.average_ulactivity"},
                windur \in {1, 2}, winshift \in {0, 1, 2}, fs \in {1, 2} :
                avg = AvgCall(fn, sig, windur, winshift, fs)
          \/ \E fn \in {"measures.average_ulactivity",
                        "measures.average_latindex"},
                windur \in {2, 4}, winshift \in {0, 2, 4},
                sample_t \in {1, 2} :
                avg = AvgCall(fn, sig, windur, winshift, sample_t)

SpecAvg == InitAvg /\ [][NextAvg]_vars

(***************************************************************************)
(* estimate_accl_pitch and estimate_accl_mag (monalysa/ulfunc/uluse.py).   *)
(* The record est holds two calls of one function with the same            *)
(* parameters on two acceleration arrays accl1 and accl2 of three columns: *)
(* n is nwin or n_am, sos the high-pass section of estimate_accl_mag.      *)
(* filt1 and filt2 are accl_filt, smooth1 and smooth2 the output of the    *)
(* moving average, out1 and out2 the returned arrays.                      *)
(*                                                                         *)
(* Numbers.  A moving average is kept as its window sum (n times the       *)
(* average).  The pitch sign * arcsin(f[inx] / |f|) of a smoothed row f is *)
(* kept as the pair <<sign * f[inx], f . f>>.  The magnitude |v| is kept   *)
(* as v . v, and an average of magnitudes as the sequence of the v . v of  *)
(* its window.  A section [b0, b1, b2, a1, a2] has a0 = 1; butter's real   *)
(* coefficients are replaced by integers of the high-pass form             *)
(* b = (1, -2, 1).                                                         *)
(***************************************************************************)
MaxEstLen == 3     \* longest acceleration array given to the estimators

Reverse(x) == [i \in 1 .. Len(x) |-> x[Len(x) + 1 - i]]

\* accl[:, k]
Col(accl, k) == [i \in 1 .. Len(accl) |-> accl[i][k + 1]]

\* signal.lfilter(np.ones(n) / n, 1, x) on one column, as window sums
MovingSum(x, n) == [i \in 1 .. Len(x) |-> WindowSum(x, i - 1, n)]

\* Line 131: the rows of acclf (times nwin)
Acclf(accl, nwin) ==
    IF nwin > 1
    THEN [i \in 1 .. Len(accl) |->
             <<MovingSum(Col(accl, 0), nwin)[i],
               MovingSum(Col(accl, 1), nwin)[i],
               MovingSum(Col(accl, 2), nwin)[i]>>]
    ELSE accl

Dot(v, w) == v[1] * w[1] + v[2] * w[2] + v[3] * w[3]

\* Lines 133-135 for one row of acclf
PitchOfRow(f, farm_inx, elb_to_farm) ==
    <<(IF elb_to_farm THEN 1 ELSE -1) * f[farm_inx + 1], Dot(f, f)>>

Pitch(acclf, farm_inx, elb_to_farm) ==
    [i \in 1 .. Len(acclf) |-> PitchOfRow(acclf[i], farm_inx, elb_to_farm)]

\* signal.sosfilt with one section, from rest: y so far is extended up to
\* the length of x
RECURSIVE SosLoop(_, _, _)
SosLoop(sos, x, y) ==
    IF Len(y) >= Len(x) THEN y
    ELSE LET i == Len(y)
         IN  SosLoop(sos, x,
                     Append(y, sos[1] * AtOrZero(x, i)
                               + sos[2] * AtOrZero(x, i - 1)
                               + sos[3] * AtOrZero(x, i - 2)
                               - sos[4] * AtOrZero(y, i - 1)
                               - sos[5] * AtOrZero(y, i - 2)))

Sosfilt(sos, x) == SosLoop(sos, x, <<>>)

\* Lines 177-179: accl_filt, row by row
AcclFilt(sos, accl) ==
    [i \in 1 .. Len(accl) |->
        <<Sosfilt(sos, Col(accl, 0))[i],
          Sosfilt(sos, Col(accl, 1))[i],
          Sosfilt(sos, Col(accl, 2))[i]>>]

\* Line 182: amag, squared
Amag(accl_filt) ==
    [i \in 1 .. Len(accl_filt) |-> Dot(accl_filt[i], accl_filt[i])]

\* Line 185: the window of amag that is averaged at each index
MovingWindow(amag, n_am) ==
    [i \in 1 .. Len(amag) |->
        [k \in 1 .. n_am |-> AtOrZero(amag, i - 1 - n_am + k)]]

EstCall(fn, accl1, accl2, n, farm_inx, elb_to_farm, sos) ==
    [pc |-> "call", fn |-> fn, accl1 |-> accl1, accl2 |-> accl2, n |-> n,
     farm_inx |-> farm_inx, elb_to_farm |-> elb_to_farm, sos |-> sos,
     filt1 |-> <<>>, filt2 |-> <<>>, smooth1 |-> <<>>, smooth2 |-> <<>>,
     out1 |-> <<>>, out2 |-> <<>>]

\* Lines 124-128 on an array of three columns
EstPitchArgsOk(c) == c.farm_inx >= 0 /\ c.farm_inx < 3 /\ c.n > 0

\* Lines 168-173 on an array of three columns with positive fs, fc, nc
EstMagArgsOk(c) == c.n > 0

EstPitchReject ==
    /\ est.pc = "call"
    /\ est.fn = "estimate_accl_pitch"
    /\ ~EstPitchArgsOk(est)
    /\ est' = [est EXCEPT !.pc = "AssertionError"]
    /\ UNCHANGED <<gmst, dwh, gmac, uluse, bin, cts, avg>>

EstPitch ==
    /\ est.pc = "call"
    /\ est.fn = "estimate_accl_pitch"
    /\ EstPitchArgsOk(est)
    /\ est' = [est EXCEPT
                  !.pc = "return",
                  !.smooth1 = Acclf(est.accl1, est.n),
                  !.smooth2 = Acclf(est.accl2, est.n),
                  !.out1 = Pitch(Acclf(est.accl1, est.n), est.farm_inx,
                                 est.elb_to_farm),
                  !.out2 = Pitch(Acclf(est.accl2, est.n), est.farm_inx,
                                 est.elb_to_farm)]
    /\ UNCHANGED <<gmst, dwh, gmac, uluse, bin, cts, avg>>

EstMagReject ==
    /\ est.pc = "call"
    /\ est.fn = "estimate_accl_mag"
    /\ ~EstMagArgsOk(est)
    /\ est' = [est EXCEPT !.pc = "AssertionError"]
    /\ UNCHANGED <<gmst, dwh, gmac, uluse, bin, cts, avg>>

EstMag ==
    /\ est.pc = "call"
    /\ est.fn = "estimate_accl_mag"
    /\ EstMagArgsOk(est)
    /\ est' = [est EXCEPT
                  !.pc = "return",
                  !.filt1 = AcclFilt(est.sos, est.accl1),
                  !.filt2 = AcclFilt(est.sos, est.accl2),
                  !.smooth1 = MovingWindow(
                                  Amag(AcclFilt(est.sos, est.accl1)), est.n),
                  !.smooth2 = MovingWindow(
                                  Amag(AcclFilt(est.sos, est.accl2)), est.n),
                  !.out1 = MovingWindow(
                               Amag(AcclFilt(est.sos, est.accl1)), est.n),
                  !.out2 = MovingWindow(
                               Amag(AcclFilt(est.sos, est.accl2)), est.n)]
    /\ UNCHANGED <<gmst, dwh, gmac, uluse, bin, cts, avg>>

NextEst ==
    \/ EstPitchReject
    \/ EstPitch
    \/ EstMagReject
    \/ EstMag

\* two acceleration samples, of magnitudes 1 and 3
AcclRows == {<<0, 0, 1>>, <<1, 2, 2>>}

\* second-order high-pass sections [b0, b1, b2, a1, a2]
SosSections == {<<1, -2, 1, -1, 0>>, <<1, -2, 1, 0, 1>>}

\* Arrays of at least one row.
InitEst ==
    /\ gmst = NoCall
    /\ dwh = NoCall
    /\ gmac = NoCall
    /\ uluse = NoCall
    /\ bin = NoCall
    /\ cts = NoCall
    /\ avg = NoCall
    /\ \E accl1 \in SeqsUpTo(AcclRows, MaxEstLen) \ {<<>>},
          accl2 \in SeqsUpTo(AcclRows, MaxEstLen) \ {<<>>} :
          \/ \E nwin \in 0 .. 3, farm_inx \in {0, 2, 3},
                elb_to_farm \in BOOLEAN :
                est = EstCall("estimate_accl_pitch", accl1, accl2, nwin,
                              farm_inx, elb_to_farm, <<>>)
          \/ \E n_am \in 0 .. 2, sos \in SosSections :
                est = EstCall("estimate_accl_mag", accl1, accl2, n_am, 0,
                              TRUE, sos)

SpecEst == InitEst /\ [][NextEst]_vars

(***************************************************************************)
(* All the calls together.                                                 *)
(***************************************************************************)
Init ==
    \/ InitSeg
    \/ InitHyst
    \/ InitGmac
    \/ InitUluse
    \/ InitBin
    \/ InitCts
    \/ InitAvg
    \/ InitEst

Next ==
    \/ NextSeg
    \/ NextHyst
    \/ NextGmac
    \/ NextUluse
    \/ NextBin
    \/ NextCts
    \/ NextAvg
    \/ NextEst

Spec == Init /\ [][Next]_vars

GmstDone ==
    gmst.pc \in {"return", "AssertionError", "AxisError", "ValueError",
                 "IndexError"}

\* The call went past the assertions and np.max: _movseg and the candidates
\* are computed.
GmstSegmented == gmst.pc \in {"filter", "adjust", "return", "IndexError"}

(***************************************************************************)
(* C1. The segments returned by get_move_segment_times are strictly        *)
(* ordered and do not overlap: the (padded) stop of a returned segment is  *)
(* below the (padded) start of the segment after it.                       *)
(***************************************************************************)
C1_StrictlyOrdered ==
    gmst.pc = "return" =>
        \A k \in 1 .. (Len(gmst.strstpts_adj) - 1) :
            gmst.strstpts_adj[k][2] < gmst.strstpts_adj[k + 1][1]

(***************************************************************************)
(* C2. Every segment returned for a signal of N samples satisfies          *)
(* 0 <= start <= stop <= N - 1.                                            *)
(***************************************************************************)
C2_WithinSignal ==
    gmst.pc = "return" =>
        \A k \in 1 .. Len(gmst.strstpts_adj) :
            /\ 0 <= gmst.strstpts_adj[k][1]
            /\ gmst.strstpts_adj[k][1] <= gmst.strstpts_adj[k][2]
            /\ gmst.strstpts_adj[k][2] <= Len(gmst.vel) - 1

\* Two or more segments are returned, the padding moved the first one, and
\* the last one was clipped at the last sample.
C2_Witness ==
    /\ gmst.pc = "return"
    /\ Len(gmst.strstpts_adj) >= 2
    /\ gmst.strstpts_adj[1] # gmst.filtered[1]
    /\ LET m == Len(gmst.filtered)
       IN  /\ gmst.filtered[m][2] + Ddur(gmst.filtered[m], gmst.durtol)
                 > Len(gmst.vel) - 1
           /\ gmst.strstpts_adj[m][2] = Len(gmst.vel) - 1

(***************************************************************************)
(* C6. Sample i is classified as moving iff speed[i] > speedth *           *)
(* max(speed), with speedth the argument of the call.                      *)
(***************************************************************************)
C6_UsesSpeedth ==
    GmstSegmented =>
        \A i \in 1 .. Len(gmst.vel) :
            gmst.movseg[i] = Exceeds(SpdSq(gmst.vel)[i], gmst.speedth,
                                     MaxSpdSq(SpdSq(gmst.vel)))

(***************************************************************************)
(* C7. When no sample is moving, or when the filters remove every          *)
(* candidate, the call returns an empty list of segments and does not      *)
(* raise, for both values of remove_on_before_off.                         *)
(***************************************************************************)
NothingSurvives(c) ==
    \/ c.strstpts = <<>>
    \/ c.remove_on_before_off
          /\ RemoveShortOn(c.strstpts, c.onth, c.delt) = <<>>
    \/ ~c.remove_on_before_off
          /\ RemoveShortOn(KeepAfterLongOff(c.strstpts, c.offth, c.delt),
                           c.onth, c.delt) = <<>>

C7_EmptyWithoutRaising ==
    (GmstDone /\ ArgsOk(gmst) /\ gmst.vel # <<>> /\ NothingSurvives(gmst)) =>
        (gmst.pc = "return" /\ gmst.strstpts_adj = <<>>)

(***************************************************************************)
(* C8. The scenario: 100 samples at rest but for speed 1 at the samples    *)
(* 30..50, delt one tick of 0.01 s, speedth 0.05, onth 0, offth 0.         *)
(***************************************************************************)
Scenario(durtol) ==
    /\ gmst.vel = Pulse(30, 50)
    /\ gmst.delt = 1
    /\ gmst.speedth = 5
    /\ gmst.onth = 0
    /\ gmst.offth = 0
    /\ gmst.durtol = durtol

\* C8 as claimed: with duration_tolerance 0 the call returns exactly the
\* segment [30, 50].
C8_ScenarioZeroTolerance ==
    (Scenario(0) /\ GmstDone) =>
        (gmst.pc = "return" /\ gmst.strstpts_adj = << <<30, 50>> >>)

\* C8 as amended: duration_tolerance 0 fails the assertion on durtol and
\* nothing is returned; with a duration_tolerance in (0, 0.05) and the other
\* arguments of the scenario, the call returns exactly the segment [30, 50].
C8_Scenario ==
    /\ (Scenario(0) /\ GmstDone) =>
           (gmst.pc = "AssertionError" /\ gmst.strstpts_adj = <<>>)
    /\ \A durtol \in 1 .. 4 :
           (Scenario(durtol) /\ GmstDone) =>
               (gmst.pc = "return" /\ gmst.strstpts_adj = << <<30, 50>> >>)

C8_Witness ==
    /\ Scenario(1)
    /\ gmst.pc = "return"
    /\ gmst.movseg = [i \in 1 .. 100 |-> (i - 1) \in 30 .. 50]

(***************************************************************************)
(* C3. detector_with_hystersis is the two-state machine: for every index   *)
(* i >= 1, when the output at i-1 is 0 the output at i is 1 iff x[i] > th, *)
(* and when the output at i-1 is 1 the output at i is 1 iff                *)
(* x[i] >= th - th_band; two indices with the same previous output and the *)
(* same sample have the same output.                                       *)
(***************************************************************************)
C3_TwoStateMachine ==
    dwh.pc = "return" =>
        /\ \A i \in 1 .. (Len(dwh.x) - 1) :
              /\ At(dwh.y, i - 1) = 0 =>
                     (At(dwh.y, i) = 1 <=> Gt(At(dwh.x, i), dwh.th))
              /\ At(dwh.y, i - 1) = 1 =>
                     (At(dwh.y, i) = 1 <=>
                          Ge(At(dwh.x, i), dwh.th - dwh.th_band))
              /\ At(dwh.y, i - 1) \in {0, 1}
        /\ \A i, j \in 1 .. (Len(dwh.x) - 1) :
              (At(dwh.y, i - 1) = At(dwh.y, j - 1)
                  /\ At(dwh.x, i) = At(dwh.x, j)) =>
                  At(dwh.y, i) = At(dwh.y, j)

\* The detector was switched on by a sample above th, stayed on at a sample
\* of the band (at th - th_band exactly), and a sample equal to th did not
\* switch it on.
C3_Witness ==
    /\ dwh.pc = "return"
    /\ dwh.th_band > 0
    /\ \E i \in 1 .. (Len(dwh.x) - 1) :
          /\ At(dwh.y, i - 1) = 1
          /\ At(dwh.x, i) = dwh.th - dwh.th_band
          /\ At(dwh.y, i) = 1
    /\ \E i \in 1 .. (Len(dwh.x) - 1) :
          /\ At(dwh.y, i - 1) = 0
          /\ At(dwh.x, i) = dwh.th
          /\ At(dwh.y, i) = 0

(***************************************************************************)
(* C4. The output of detector_with_hystersis has the length of the input,  *)
(* every element is 0 or 1, and element 0 is 0 whatever x[0] is.           *)
(***************************************************************************)
C4_ShapeAndFirstElement ==
    dwh.pc = "return" =>
        /\ Len(dwh.y) = Len(dwh.x)
        /\ \A i \in Indices(dwh.y) : At(dwh.y, i) \in {0, 1}
        /\ dwh.x # <<>> => At(dwh.y, 0) = 0

\* The first sample is above th and the output starts at 0 all the same.
C4_Witness ==
    /\ dwh.pc = "return"
    /\ Len(dwh.x) >= 2
    /\ Gt(At(dwh.x, 0), dwh.th)
    /\ At(dwh.y, 0) = 0
    /\ At(dwh.y, 1) = 1

(***************************************************************************)
(* C5. In from_gmac the combined decision at index i is 1 iff the pitch    *)
(* detector and the magnitude detector, each run on its own signal with    *)
(* its own threshold and band, are both 1 at i; otherwise it is 0.         *)
(***************************************************************************)
C5_GmacIsAnd ==
    gmac.pc = "return" =>
        /\ Len(gmac.out) = gmac.rows
        /\ \A i \in 1 .. gmac.rows :
              /\ gmac.out[i] \in {0, 1}
              /\ gmac.out[i] = 1 <=>
                    /\ detector_with_hystersis(gmac.pitch, gmac.p_th,
                                               gmac.p_th_band)[i] = 1
                    /\ detector_with_hystersis(gmac.accl_mag, gmac.am_th,
                                               gmac.am_th_band)[i] = 1

\* Both detectors are on at one index, the pitch detector alone at another,
\* and the two detectors ran with different bands.
C5_Witness ==
    /\ gmac.pc = "return"
    /\ gmac.p_th_band # gmac.am_th_band
    /\ \E i, j \in 1 .. gmac.rows :
          /\ gmac.pout[i] = 1 /\ gmac.amout[i] = 1 /\ gmac.out[i] = 1
          /\ gmac.pout[j] = 1 /\ gmac.amout[j] = 0 /\ gmac.out[j] = 0

(***************************************************************************)
(* C9. detector_with_hystersis on [0, 2, 6, 4, 2, 0] with threshold 5 and  *)
(* band 2 returns [0, 0, 1, 1, 0, 0].                                      *)
(***************************************************************************)
C9_Scenario ==
    (/\ dwh.pc = "return"
     /\ dwh.x = <<0, 2, 6, 4, 2, 0>>
     /\ dwh.th = 5
     /\ dwh.th_band = 2) => dwh.y = <<0, 0, 1, 1, 0, 0>>

C9_Witness ==
    /\ dwh.pc = "return"
    /\ dwh.x = <<0, 2, 6, 4, 2, 0>>
    /\ dwh.th = 5
    /\ dwh.th_band = 2
    /\ dwh.y = <<0, 0, 1, 1, 0, 0>>

(***************************************************************************)
(* C10. A monotonically non-decreasing input that crosses the threshold    *)
(* (th_band >= 0): the output changes from 0 to 1 once and never back.     *)
(***************************************************************************)
NonDecreasing(x) ==
    /\ \A i \in 1 .. Len(x) : ~IsNaN(x[i])
    /\ \A i \in 1 .. (Len(x) - 1) : x[i] <= x[i + 1]

Crosses(x, th) == \E i \in Indices(x) : Gt(At(x, i), th)

\* The first index whose sample exceeds th.
FirstAbove(x, th) ==
    CHOOSE k \in Indices(x) :
        Gt(At(x, k), th) /\ \A i \in 0 .. (k - 1) : ~Gt(At(x, i), th)

\* C10 as claimed: the change happens at the first index whose sample
\* exceeds the threshold, index 0 included.
C10_ChangesAtFirstAbove ==
    (/\ dwh.pc = "return"
     /\ dwh.th_band >= 0
     /\ NonDecreasing(dwh.x)
     /\ Crosses(dwh.x, dwh.th)) =>
        \A i \in Indices(dwh.x) :
            At(dwh.y, i) = Bit(i >= FirstAbove(dwh.x, dwh.th))

\* C10 as amended: the change happens at the first index k whose sample
\* exceeds the threshold when k >= 1, and at index 1 when k = 0 (element 0
\* of the output is always 0, so an input of one sample above the threshold
\* gives no change at all).
C10_ChangesOnce ==
    (/\ dwh.pc = "return"
     /\ dwh.th_band >= 0
     /\ NonDecreasing(dwh.x)
     /\ Crosses(dwh.x, dwh.th)) =>
        \A i \in Indices(dwh.x) :
            At(dwh.y, i) = Bit(i >= Max2(1, FirstAbove(dwh.x, dwh.th)))

\* A non-decreasing input that reaches th exactly, then exceeds it, then
\* goes on: the output is 0 up to the sample equal to th and 1 after it.
C10_Witness ==
    /\ dwh.pc = "return"
    /\ dwh.th_band >= 0
    /\ NonDecreasing(dwh.x)
    /\ Len(dwh.x) >= 4
    /\ Crosses(dwh.x, dwh.th)
    /\ At(dwh.x, 1) = dwh.th
    /\ FirstAbove(dwh.x, dwh.th) = 2
    /\ At(dwh.y, 1) = 0
    /\ At(dwh.y, 2) = 1
    /\ At(dwh.y, 3) = 1

(***************************************************************************)
(* C11. Once the output of detector_with_hystersis is 1 at index i-1, it   *)
(* stays 1 at every following index for as long as each sample lies in     *)
(* [th - th_band, th]: a dip inside the band never switches the output     *)
(* off.                                                                    *)
(***************************************************************************)
InBand(v, th, th_band) == Ge(v, th - th_band) /\ Ge(th, v)

C11_StaysOnInBand ==
    dwh.pc = "return" =>
        \A i \in 1 .. (Len(dwh.x) - 1) :
            \A j \in i .. (Len(dwh.x) - 1) :
                (/\ At(dwh.y, i - 1) = 1
                 /\ \A k \in i .. j : InBand(At(dwh.x, k), dwh.th, dwh.th_band))
                    => At(dwh.y, j) = 1

\* Switched on, then two samples of the band, both below th, the second at
\* th - th_band exactly: the output is still 1.
C11_Witness ==
    /\ dwh.pc = "return"
    /\ Len(dwh.x) >= 4
    /\ dwh.th_band > 0
    /\ At(dwh.y, 1) = 1
    /\ InBand(At(dwh.x, 2), dwh.th, dwh.th_band)
    /\ At(dwh.x, 2) < dwh.th
    /\ At(dwh.x, 3) = dwh.th - dwh.th_band
    /\ At(dwh.y, 2) = 1
    /\ At(dwh.y, 3) = 1

(***************************************************************************)
(* C12. With th_band = 0 the detector is compared with the single          *)
(* threshold comparator x[i] > th.                                         *)
(***************************************************************************)
\* C12 as claimed: for any input the output at every index is x[i] > th.
C12_IsComparator ==
    (dwh.pc = "return" /\ dwh.th_band = 0) =>
        \A i \in Indices(dwh.x) : At(dwh.y, i) = Bit(Gt(At(dwh.x, i), dwh.th))

\* C12 as amended: with th_band = 0, element 0 of the output is 0; at every
\* index i >= 1 whose sample differs from th the output is x[i] > th, and a
\* sample equal to th repeats the output of index i - 1.
C12_ComparatorButAtTh ==
    (dwh.pc = "return" /\ dwh.th_band = 0) =>
        /\ dwh.x # <<>> => At(dwh.y, 0) = 0
        /\ \A i \in 1 .. (Len(dwh.x) - 1) :
              At(dwh.y, i) = IF At(dwh.x, i) = dwh.th
                             THEN At(dwh.y, i - 1)
                             ELSE Bit(Gt(At(dwh.x, i), dwh.th))

\* A step up across th, then a sample equal to th that keeps the output on,
\* then a sample below th that switches it off.
C12_Witness ==
    /\ dwh.pc = "return"
    /\ dwh.th_band = 0
    /\ Len(dwh.x) >= 4
    /\ ~IsNaN(At(dwh.x, 0)) /\ At(dwh.x, 0) < dwh.th
    /\ At(dwh.x, 1) > dwh.th
    /\ At(dwh.x, 2) = dwh.th
    /\ ~IsNaN(At(dwh.x, 3)) /\ At(dwh.x, 3) < dwh.th
    /\ dwh.y = <<0, 1, 1, 0>>

(***************************************************************************)
(* C13. Every segment [s, e] that survives the filters is returned as      *)
(* start' = max(p, s - d) and stop' = min(e + d, n), with                  *)
(* d = floor(durtol * (e - s)), p the unpadded stop of the surviving       *)
(* segment before it (0 for the first) and n the unpadded start of the     *)
(* surviving segment after it (N - 1 for the last): a padded boundary      *)
(* never goes past the original span of the neighbour.                     *)
(***************************************************************************)
C13_PaddingRule ==
    gmst.pc = "return" =>
        /\ Len(gmst.strstpts_adj) = Len(gmst.filtered)
        /\ \A k \in 1 .. Len(gmst.filtered) :
              LET s == gmst.filtered[k][1]
                  e == gmst.filtered[k][2]
                  d == (gmst.durtol * (e - s)) \div 100
                  p == IF k = 1 THEN 0 ELSE gmst.filtered[k - 1][2]
                  n == IF k = Len(gmst.filtered) THEN Len(gmst.vel) - 1
                       ELSE gmst.filtered[k + 1][1]
              IN  /\ gmst.strstpts_adj[k][1] = (IF p >= s - d THEN p ELSE s - d)
                  /\ gmst.strstpts_adj[k][2] = (IF e + d <= n THEN e + d ELSE n)
                  /\ p <= gmst.strstpts_adj[k][1]
                  /\ gmst.strstpts_adj[k][2] <= n

\* Two surviving segments whose paddings are both cut at the neighbour: the
\* first stop at the start of the second, the second start at the stop of
\* the first.
C13_Witness ==
    /\ gmst.pc = "return"
    /\ Len(gmst.filtered) = 2
    /\ gmst.filtered[1][2] + Ddur(gmst.filtered[1], gmst.durtol)
           > gmst.filtered[2][1]
    /\ gmst.strstpts_adj[1][2] = gmst.filtered[2][1]
    /\ gmst.filtered[2][1] - Ddur(gmst.filtered[2], gmst.durtol)
           < gmst.filtered[1][2]
    /\ gmst.strstpts_adj[2][1] = gmst.filtered[1][2]

\* The filters of lines 88-99 ran (and returned or raised).
GmstFiltered == gmst.pc \in {"adjust", "return", "IndexError"}

\* The list that enters off-removal, and the list that enters on-removal.
OffInput(c) ==
    IF c.remove_on_before_off
    THEN RemoveShortOn(c.strstpts, c.onth, c.delt)
    ELSE c.strstpts

OnInput(c) ==
    IF c.remove_on_before_off
    THEN c.strstpts
    ELSE KeepAfterLongOff(c.strstpts, c.offth, c.delt)

\* The list that off-removal gives, for a list with a first row.
OffOutput(c) ==
    IF c.remove_on_before_off
    THEN RemoveShortOff(OffInput(c), c.offth, c.delt)
    ELSE KeepAfterLongOff(OffInput(c), c.offth, c.delt)

(***************************************************************************)
(* C14. Off-removal merges in both orders of the filters: two consecutive  *)
(* segments that enter it with a gap (next start minus previous stop) of   *)
(* at most offth / delt come out as one segment that spans from the start  *)
(* of the first to the stop of the second.                                 *)
(***************************************************************************)
C14_MergesInBothOrders ==
    (gmst.pc \in {"adjust", "return"}) =>
        \A k \in 1 .. (Len(OffInput(gmst)) - 1) :
            LET a == OffInput(gmst)[k]
                b == OffInput(gmst)[k + 1]
            IN  (b[1] - a[2]) * gmst.delt <= gmst.offth =>
                    \E j \in 1 .. Len(OffOutput(gmst)) :
                        /\ OffOutput(gmst)[j][1] <= a[1]
                        /\ b[2] <= OffOutput(gmst)[j][2]

(***************************************************************************)
(* C15. A zero threshold disables its filter: with onth = 0 on-removal     *)
(* drops no candidate (a bout of one sample, start = stop, included), and  *)
(* with offth = 0 off-removal merges or drops none.                        *)
(***************************************************************************)
C15_ZeroDisables ==
    (GmstFiltered /\ gmst.strstpts # <<>>) =>
        /\ gmst.onth = 0 =>
               RemoveShortOn(OnInput(gmst), gmst.onth, gmst.delt)
                   = OnInput(gmst)
        /\ (gmst.offth = 0 /\ OffInput(gmst) # <<>>) =>
               OffOutput(gmst) = OffInput(gmst)

(***************************************************************************)
(* C16. The call fails, before any segment is computed and without a       *)
(* partial result, whenever delt <= 0, speedth is outside (0, 1), durtol   *)
(* is outside (0, 1) or vel is not a two-dimensional array.                *)
(***************************************************************************)
BadArgs(c) ==
    \/ c.delt <= 0
    \/ c.speedth <= 0 \/ c.speedth >= 100
    \/ c.durtol <= 0 \/ c.durtol >= 100
    \/ ~c.vel_is_array
    \/ c.vel_ndim # 2

C16_FailsEagerly ==
    BadArgs(gmst) =>
        /\ gmst.pc \in {"call", "AssertionError", "AxisError", "ValueError"}
        /\ gmst.movseg = <<>>
        /\ gmst.strstpts = <<>>
        /\ gmst.filtered = <<>>
        /\ gmst.strstpts_adj = <<>>

\* A signal with a bout, a valid delt and speedth, and durtol = 1: the call
\* ended on the assertion.
C16_Witness ==
    /\ gmst.pc = "AssertionError"
    /\ gmst.vel_is_array /\ gmst.vel_ndim = 2
    /\ gmst.vel = Pulse(30, 50)
    /\ gmst.delt > 0
    /\ gmst.durtol = 100
    /\ gmst.strstpts_adj = <<>>

(***************************************************************************)
(* C17: a NaN sample forces the OFF state in both hysteresis detectors.    *)
(* At an index whose input is NaN the output is 0 in                       *)
(* detector_with_hystersis and NaN in from_vec_mag_dblth, never 1; the     *)
(* sample right after it is decided as from OFF: it is 1 exactly when it   *)
(* passes the upper threshold (x > th, resp. vecmag >= thresh_h), so a     *)
(* sample in the dead zone gets 0.                                         *)
(***************************************************************************)
C17_NaNForcesOff ==
    /\ dwh.pc = "return" =>
          \A i \in Indices(dwh.x) :
              IsNaN(At(dwh.x, i)) =>
                  /\ At(dwh.y, i) = 0
                  /\ i + 1 < Len(dwh.x) =>
                        At(dwh.y, i + 1) = Bit(Gt(At(dwh.x, i + 1), dwh.th))
    /\ (uluse.pc = "return" /\ uluse.fn = "from_vec_mag_dblth") =>
          \A i \in Indices(uluse.vecmag) :
              IsNaN(At(uluse.vecmag, i)) =>
                  /\ IsNaN(At(uluse.use, i))
                  /\ i + 1 < Len(uluse.vecmag) =>
                        At(uluse.use, i + 1) =
                            IF IsNaN(At(uluse.vecmag, i + 1)) THEN NaN
                            ELSE Bit(Ge(At(uluse.vecmag, i + 1),
                                        uluse.thresh_h))

\* from_vec_mag_dblth was on, met a NaN, and the dead-zone sample after the
\* NaN got 0
C17_Witness ==
    /\ uluse.pc = "return"
    /\ uluse.fn = "from_vec_mag_dblth"
    /\ uluse.thresh_l < uluse.thresh_h
    /\ \E i \in Indices(uluse.vecmag) :
          /\ i >= 1
          /\ i + 1 < Len(uluse.vecmag)
          /\ At(uluse.use, i - 1) = 1
          /\ IsNaN(At(uluse.vecmag, i))
          /\ DeadZone(At(uluse.vecmag, i + 1), uluse.thresh_l,
                      uluse.thresh_h)
          /\ At(uluse.use, i + 1) = 0

(***************************************************************************)
(* C18: with thresh_l == thresh_h, from_vec_mag_dblth ends as from_vec_mag *)
(* does on the same input and threshold: it returns exactly when the       *)
(* input is not empty and its least non-NaN value is not negative, and     *)
(* then the index array is 0 .. N-1 and the use array is NaN where the     *)
(* input is NaN and 1 * (vecmag >= thresh) elsewhere.  Likewise            *)
(* from_activity_counts2 with threshold0 == threshold1 ends as             *)
(* from_activity_counts1 does and returns 1 * (actcounts >= threshold0).   *)
(***************************************************************************)
C18_SameThresholdsIsComparator ==
    (UluseDone /\ uluse.thresh_l = uluse.thresh_h) =>
        /\ uluse.fn = "from_vec_mag_dblth" =>
              /\ uluse.pc = "return" <=> VecMagArgsOk(uluse)
              /\ uluse.pc = "return" =>
                    /\ uluse.inx = [i \in 1 .. Len(uluse.vecmag) |-> i - 1]
                    /\ uluse.use =
                          [i \in 1 .. Len(uluse.vecmag) |->
                              IF uluse.vecmag[i] = NaN THEN NaN
                              ELSE IF uluse.vecmag[i] >= uluse.thresh_l
                                   THEN 1 ELSE 0]
        /\ uluse.fn = "from_activity_counts2" =>
              /\ uluse.pc = "return" <=> Counts1ArgsOk(uluse)
              /\ uluse.pc = "return" =>
                    uluse.use =
                        [i \in 1 .. Len(uluse.vecmag) |->
                            IF uluse.vecmag[i] # NaN
                               /\ uluse.vecmag[i] >= uluse.thresh_l
                            THEN 1 ELSE 0]

\* from_vec_mag_dblth returned with equal thresholds on an input that holds
\* a NaN, a sample at the threshold and a sample below it
C18_Witness ==
    /\ uluse.pc = "return"
    /\ uluse.fn = "from_vec_mag_dblth"
    /\ uluse.thresh_l = uluse.thresh_h
    /\ \E i, j, k \in Indices(uluse.vecmag) :
          /\ IsNaN(At(uluse.vecmag, i)) /\ IsNaN(At(uluse.use, i))
          /\ At(uluse.vecmag, j) = uluse.thresh_l /\ At(uluse.use, j) = 1
          /\ Lt(At(uluse.vecmag, k), uluse.thresh_l) /\ At(uluse.use, k) = 0

(***************************************************************************)
(* C19: detector_with_hystersis (and from_gmac, which hands its thresholds *)
(* to it) rejects a negative hysteresis band or a non-positive threshold   *)
(* before any output is produced: a call that returned had th > 0 and      *)
(* th_band >= 0.                                                           *)
(***************************************************************************)
C19_RejectsBadThresholds ==
    dwh.pc = "return" => (dwh.th > 0 /\ dwh.th_band >= 0)

(***************************************************************************)
(* C20: when the whole input is NaN, from_vec_mag and from_vec_mag_dblth   *)
(* (called with thresh_l <= thresh_h) return an all-NaN use array and do   *)
(* not raise.                                                              *)
(***************************************************************************)
C20_AllNaNGivesNaN ==
    (/\ UluseDone
     /\ uluse.fn \in {"from_vec_mag", "from_vec_mag_dblth"}
     /\ uluse.thresh_l <= uluse.thresh_h
     /\ Len(uluse.vecmag) > 0
     /\ \A i \in Indices(uluse.vecmag) : IsNaN(At(uluse.vecmag, i)))
    => (/\ uluse.pc = "return"
        /\ Len(uluse.use) = Len(uluse.vecmag)
        /\ \A i \in Indices(uluse.use) : IsNaN(At(uluse.use, i)))

\* every element is 0 or 1, or is NaN where NaN is allowed
IsBinary(sig, allownan) ==
    \A i \in Indices(sig) :
        \/ At(sig, i) \in {0, 1}
        \/ allownan /\ At(sig, i) = NaN

(***************************************************************************)
(* C21: misc.is_binary_signal(sig, allownan) returns True if and only if   *)
(* every element of sig is 0 or 1, or is NaN when allownan is True: a      *)
(* signal holding a NaN is rejected when allownan is False, one holding    *)
(* any other value is rejected for both settings.                          *)
(***************************************************************************)
C21_MiscIsBinary ==
    (bin.pc = "return" /\ bin.module = "misc") =>
        /\ bin.result <=> IsBinary(bin.sig, bin.allownan)
        /\ (\E i \in Indices(bin.sig) : At(bin.sig, i) = NaN)
              /\ ~bin.allownan => ~bin.result
        /\ (\E i \in Indices(bin.sig) : At(bin.sig, i) \notin {0, 1, NaN})
              => ~bin.result

\* misc.is_binary_signal rejected a signal of 0, 1 and NaN because NaN was
\* not allowed
C21_Witness ==
    /\ bin.pc = "return"
    /\ bin.module = "misc"
    /\ ~bin.allownan
    /\ \A i \in Indices(bin.sig) : At(bin.sig, i) \in {0, 1, NaN}
    /\ \E i, j \in Indices(bin.sig) :
          At(bin.sig, i) = NaN /\ At(bin.sig, j) = 1
    /\ ~bin.result

(***************************************************************************)
(* C28: support.is_binary_signal returns True exactly when every element   *)
(* of the signal is 0 or 1 (or NaN when allownan is True), which is what   *)
(* misc.is_binary_signal returns for the same arguments.                   *)
(***************************************************************************)
C28_SupportIsBinary ==
    (bin.pc = "return" /\ bin.module = "support") =>
        /\ bin.result <=> IsBinary(bin.sig, bin.allownan)
        /\ bin.result <=> misc_is_binary_signal(bin.sig, bin.allownan)

\* the candidates that on-removal keeps: duration above on_threshold / delt
Survivors(c) ==
    SelectSeq(c.strstpts, LAMBDA s : (s[2] - s[1]) * c.delt > c.onth)

\* the survivors that open a segment: the first one, and every one whose
\* start is more than off_threshold / delt after the stop of the one before
Openers(c) ==
    {k \in 1 .. Len(Survivors(c)) :
        \/ k = 1
        \/ (Survivors(c)[k][1] - Survivors(c)[k - 1][2]) * c.delt > c.offth}

\* each opener with the stop of the last survivor before the next opener
Fused(c) ==
    LET S == Survivors(c)
        order == SortedSeq(Openers(c))
    IN  [j \in 1 .. Len(order) |->
            <<S[order[j]][1],
              S[IF j < Len(order) THEN order[j + 1] - 1 ELSE Len(S)][2]>>]

(***************************************************************************)
(* C22: with remove_on_before_off true and a candidate surviving           *)
(* on-removal, the segments of get_move_segment_times before padding are   *)
(* the candidates longer than on_threshold/delt, folded left to right      *)
(* with a survivor fused into the current segment when it starts at most   *)
(* off_threshold/delt after the stop of the survivor before it; every gap  *)
(* between consecutive segments of the result exceeds off_threshold/delt.  *)
(***************************************************************************)
C22_OnThenOffFold ==
    (gmst.pc \in {"adjust", "return"} /\ gmst.remove_on_before_off) =>
        /\ gmst.filtered = Fused(gmst)
        /\ \A j \in 1 .. Len(gmst.filtered) - 1 :
              (gmst.filtered[j + 1][1] - gmst.filtered[j][2]) * gmst.delt
                  > gmst.offth

\* on-removal dropped a candidate and a chain of three survivors was fused
\* into one segment
C22_Witness ==
    /\ gmst.pc = "return"
    /\ gmst.remove_on_before_off
    /\ Len(gmst.strstpts) > Len(Survivors(gmst))
    /\ Len(Survivors(gmst)) = 3
    /\ Len(gmst.filtered) = 1
    /\ gmst.filtered[1] = <<Survivors(gmst)[1][1], Survivors(gmst)[3][2]>>

(***************************************************************************)
(* C29: no long bout is lost by get_move_segment_times.  For either value  *)
(* of remove_on_before_off, every candidate whose duration stop - start    *)
(* exceeds on_threshold/delt lies inside a returned segment.               *)
(***************************************************************************)
C29_NoLongBoutLost ==
    gmst.pc = "return" =>
        \A k \in 1 .. Len(gmst.strstpts) :
            (gmst.strstpts[k][2] - gmst.strstpts[k][1]) * gmst.delt
                > gmst.onth
            => \E j \in 1 .. Len(gmst.strstpts_adj) :
                  /\ gmst.strstpts_adj[j][1] <= gmst.strstpts[k][1]
                  /\ gmst.strstpts[k][2] <= gmst.strstpts_adj[j][2]

(***************************************************************************)
(* C25: for thresh_l < thresh_h and an input without NaN and without       *)
(* negative values, from_vec_mag_dblth gives 1 where the sample is         *)
(* >= thresh_h, 0 where it is < thresh_l, and in between the output of     *)
(* the index before, 0 at index 0; the index array is 0 .. N-1.  The older *)
(* from_activity_counts2 gives the same use array.                         *)
(***************************************************************************)
C25_DoubleThreshold ==
    (/\ uluse.pc = "return"
     /\ uluse.fn \in {"from_vec_mag_dblth", "from_activity_counts2"}
     /\ uluse.thresh_l < uluse.thresh_h
     /\ \A i \in Indices(uluse.vecmag) : At(uluse.vecmag, i) # NaN)
    => /\ uluse.fn = "from_vec_mag_dblth" =>
              uluse.inx = [i \in 1 .. Len(uluse.vecmag) |-> i - 1]
       /\ Len(uluse.use) = Len(uluse.vecmag)
       /\ \A i \in Indices(uluse.vecmag) :
              At(uluse.use, i) =
                  IF At(uluse.vecmag, i) >= uluse.thresh_h THEN 1
                  ELSE IF At(uluse.vecmag, i) < uluse.thresh_l THEN 0
                  ELSE IF i = 0 THEN 0
                  ELSE At(uluse.use, i - 1)

\* from_vec_mag_dblth started in the dead zone (0), went on, and stayed on
\* through a dead-zone sample
C25_Witness ==
    /\ uluse.pc = "return"
    /\ uluse.fn = "from_vec_mag_dblth"
    /\ uluse.thresh_l < uluse.thresh_h
    /\ \A i \in Indices(uluse.vecmag) : At(uluse.vecmag, i) # NaN
    /\ Len(uluse.vecmag) >= 3
    /\ DeadZone(At(uluse.vecmag, 0), uluse.thresh_l, uluse.thresh_h)
    /\ At(uluse.use, 0) = 0
    /\ \E i \in Indices(uluse.vecmag) :
          /\ i >= 1
          /\ DeadZone(At(uluse.vecmag, i), uluse.thresh_l, uluse.thresh_h)
          /\ At(uluse.use, i) = 1

(***************************************************************************)
(* C27: every (start, end) pair returned by get_continuous_time_segments   *)
(* delimits a continuous segment: the successive timestamps of the series  *)
(* from start to end inclusive are all deltatime apart.                    *)
(***************************************************************************)
C27_SegmentsHaveNoGap ==
    cts.pc = "return" =>
        \A j \in 1 .. Len(cts.segments) :
            \A k \in 1 .. Len(cts.timeseries) - 1 :
                (/\ cts.segments[j][1] <= cts.timeseries[k]
                 /\ cts.timeseries[k + 1] <= cts.segments[j][2])
                => cts.timeseries[k + 1] - cts.timeseries[k] = cts.deltatime

\* the number of samples in winshift seconds
ShiftSamples(c) ==
    IF TakesFs(c.fn) THEN c.winshift * c.rate ELSE c.winshift \div c.rate

(***************************************************************************)
(* C26: in every windowed-averaging function winshift is the time shift    *)
(* between two consecutive windows.  The returned time indices are         *)
(* 0, k, 2k, ... below the length of the signal, with k the number of      *)
(* samples in winshift seconds, whatever windur is, and the returned       *)
(* averages are the causal window means at exactly those indices.          *)
(***************************************************************************)
C26_WinshiftIsTheShift ==
    avg.pc = "return" =>
        LET k == ShiftSamples(avg)
            n == Len(avg.sig)
        IN  /\ Len(avg.inx) = (n + k - 1) \div k
            /\ Len(avg.sums) = Len(avg.inx)
            /\ \A j \in 1 .. Len(avg.inx) :
                  /\ avg.inx[j] = (j - 1) * k
                  /\ avg.sums[j] = WindowSum(avg.sig, (j - 1) * k, avg.n_win)

\* the two arrays agree on the samples 0 .. i
AgreeUpTo(a, b, i) ==
    /\ i < Len(a)
    /\ i < Len(b)
    /\ \A k \in 0 .. i : At(a, k) = At(b, k)

(***************************************************************************)
(* C23: estimate_accl_mag high-pass filters each of the three axes with a  *)
(* zero-phase filter, one applied forward and then backward: each column   *)
(* of accl_filt is the section run over the column, then run over the      *)
(* reversed result, reversed again.                                        *)
(***************************************************************************)
C23_ZeroPhase ==
    (est.pc = "return" /\ est.fn = "estimate_accl_mag") =>
        \A k \in 0 .. 2 :
            Col(est.filt1, k) =
                Reverse(Sosfilt(est.sos,
                                Reverse(Sosfilt(est.sos,
                                                Col(est.accl1, k)))))

(***************************************************************************)
(* C24: the moving averages of estimate_accl_pitch and estimate_accl_mag   *)
(* are causal.  For two acceleration arrays that agree on the samples      *)
(* 0 .. i, the smoothed values at i, and so the pitch and the magnitude    *)
(* returned at i, are the same; an output has as many samples as its       *)
(* input.                                                                  *)
(***************************************************************************)
C24_CausalAverages ==
    est.pc = "return" =>
        /\ Len(est.out1) = Len(est.accl1)
        /\ Len(est.out2) = Len(est.accl2)
        /\ \A i \in Indices(est.accl1) :
              AgreeUpTo(est.accl1, est.accl2, i) =>
                  /\ At(est.smooth1, i) = At(est.smooth2, i)
                  /\ At(est.out1, i) = At(est.out2, i)

\* estimate_accl_pitch averaged over two or more samples two arrays that
\* agree up to a sample and differ at the next: the pitch is the same up to
\* that sample and differs at the next
C24_Witness ==
    /\ est.pc = "return"
    /\ est.fn = "estimate_accl_pitch"
    /\ est.n >= 2
    /\ \E i \in Indices(est.accl1) :
          /\ AgreeUpTo(est.accl1, est.accl2, i)
          /\ i + 1 < Len(est.accl1)
          /\ i + 1 < Len(est.accl2)
          /\ At(est.accl1, i + 1) # At(est.accl2, i + 1)
          /\ At(est.out1, i) = At(est.out2, i)
          /\ At(est.out1, i + 1) # At(est.out2, i + 1)

====
